---- MODULE Spec2Model ----
(***************************************************************************)
(* Model of prediction.py: a script that loads a Keras MNIST classifier    *)
(* and the MNIST train/test CSV files at import time, defines predict()    *)
(* and calls it once.                                                      *)
(*                                                                         *)
(* Arrays are 1-based sequences here; a Python index i is position i + 1.  *)
(* An image is kept as its flattened pixel sequence: the reshape calls of  *)
(* lines 21, 27, 36 and 43 change the shape of an array and neither the    *)
(* order nor the value of its elements.                                    *)
(***************************************************************************)
EXTENDS Integers, Sequences, FiniteSets, TLC

VARIABLES
    pc,                     \* the statement the script is about to run
    error,                  \* the exception that ended the script, if any
    model,                  \* line 10: the loaded classifier
    train_df, test_df,      \* lines 17-18: the frames read from the CSV files
    train_features, train_labels,   \* lines 20-24
    test_features, test_labels,     \* lines 26-29
    selected_element,       \* line 34: local of predict()
    features, label,        \* lines 36-37: locals of predict()
    selected_image,         \* line 40: local of predict()
    single_predicted_label, \* line 43: local of predict()
    result,                 \* line 45: the value predict() returned
    modelCalls,             \* number of model.predict invocations (line 43)
    loaded                  \* the module globals as they were when line 29 finished

vars == <<pc, error, model, train_df, test_df, train_features, train_labels,
          test_features, test_labels, selected_element, features, label,
          selected_image, single_predicted_label, result, modelCalls, loaded>>

globals == <<model, train_df, test_df, train_features, train_labels,
             test_features, test_labels>>

locals == <<selected_element, features, label, selected_image,
            single_predicted_label, result>>

\* A Python name that has not been assigned yet.
Unbound == "unbound"

\* No exception has been raised.
NoError == [kind |-> "none", line |-> 0]

\* Python objects whose type line 43 is about are kept with their type.
PyInt(k) == [type |-> "int", value |-> k]
PyStr(s) == [type |-> "str", value |-> s]

--------------------------------------------------------------------------
(* Bounds of the model and constants of the program *)

\* Largest number of rows of the test file that is enumerated.
MaxRows == 2

\* Largest number of rows of the training file that is enumerated.
MaxTrainRows == 1

\* Exclusive upper end of np.random.randint(0, 9999).
RandHigh == 9999

\* Divisor of the pixel normalisation, features / 255.0.
PixelScale == 255

\* Width of the classifier's output vector (one score per digit class).
NumClasses == 10

--------------------------------------------------------------------------
(* Input domains: what the files on disk may hold *)

\* Values of columns 1.. of a CSV row (784 intensities in the real files).
RawImages == {<<0>>, <<255>>}

\* The CSV rows that are enumerated, read with header=None: column 0 is the
\* label, the rest are the pixels.
Rows == {<<7, 0>>, <<3, 255>>}

RECURSIVE SeqsUpTo(_, _)
SeqsUpTo(S, n) ==
    IF n = 0 THEN {<<>>}
    ELSE LET shorter == SeqsUpTo(S, n - 1)
         IN  shorter \cup {Append(s, x) : s \in {t \in shorter : Len(t) = n - 1}, x \in S}

\* Contents of a readable CSV file with at most n rows.
Frames(n) == SeqsUpTo(Rows, n)

--------------------------------------------------------------------------
(* Array helpers *)

\* Mutant: the row slice and the column slice confused, so row 0 is dropped.
FeatureColumnsSkipFirst(df) == [r \in 1..(Len(df) - 1) |-> Tail(df[r + 1])]

\* df.loc[:, 1:].values : every row without its column 0.
FeatureColumns(df) == [r \in 1..Len(df) |-> Tail(df[r])]

\* df[0].values : column 0 of every row.
LabelColumn(df) == [r \in 1..Len(df) |-> Head(df[r])]

\* a / 255.0 on one image: each intensity p becomes the fraction p/255,
\* kept as the pair <<numerator, denominator>>.
NormalizeImage(img) == [k \in 1..Len(img) |-> <<img[k], PixelScale>>]

\* a / 255.0 on the whole array.
Normalize(a) == [r \in 1..Len(a) |-> NormalizeImage(a[r])]

\* Images the classifier can be asked about.
NormImages == {NormalizeImage(px) : px \in RawImages}

\* Output vectors; scores are in hundredths.
Flat == [c \in 1..NumClasses |-> 10]
Peaks(a, b) == [c \in 1..NumClasses |-> IF c - 1 = a \/ c - 1 = b THEN 40 ELSE 5]
OutVectors == {Flat, Peaks(3, 7), Peaks(9, 9)}

\* What a readable model artifact may hold: a map from image to output vector.
Models == [NormImages -> OutVectors]

\* model.predict(batch)[0] for the one-image batch built at line 43.
ModelPredict(m, img) == m[img]

\* Mutant: a scan that keeps the last position of the maximum.
RECURSIVE ArgmaxFromLast(_, _, _)
ArgmaxFromLast(v, k, best) ==
    IF k > Len(v) THEN best
    ELSE IF v[k] >= v[best] THEN ArgmaxFromLast(v, k + 1, k)
    ELSE ArgmaxFromLast(v, k + 1, best)

\* numpy argmax: scan left to right, keep the first position of the maximum.
RECURSIVE ArgmaxFrom(_, _, _)
ArgmaxFrom(v, k, best) ==
    IF k > Len(v) THEN best
    ELSE IF v[k] > v[best] THEN ArgmaxFrom(v, k + 1, k)
    ELSE ArgmaxFrom(v, k + 1, best)

\* Mutant: the position is reported 1-based.
ArgmaxOneBased(v) == ArgmaxFrom(v, 2, 1)

\* v.argmax() as a 0-based index.
Argmax(v) == ArgmaxFrom(v, 2, 1) - 1

\* str(k) for a non-negative integer.
Digit == <<"0", "1", "2", "3", "4", "5", "6", "7", "8", "9">>
RECURSIVE Str(_)
Str(k) == IF k < 10 THEN Digit[k + 1] ELSE Str(k \div 10) \o Digit[(k % 10) + 1]

\* plt.imshow(features, cmap="Greys"): the image object drawn on the axes.
Imshow(img) == [data |-> img, cmap |-> "Greys"]

\* a[i] on axis 0 of a numpy array: is -len(a) <= i < len(a)?
InBounds(a, i) == (0 - Len(a)) <= i /\ i < Len(a)

\* a[i] for an index that is in bounds; a negative i counts from the end.
Item(a, i) == IF i >= 0 THEN a[i + 1] ELSE a[Len(a) + i + 1]

--------------------------------------------------------------------------
(* The script *)

Init ==
    /\ pc = "load_model"
    /\ error = NoError
    /\ model = Unbound
    /\ train_df = Unbound /\ test_df = Unbound
    /\ train_features = Unbound /\ train_labels = Unbound
    /\ test_features = Unbound /\ test_labels = Unbound
    /\ selected_element = Unbound
    /\ features = Unbound /\ label = Unbound
    /\ selected_image = Unbound
    /\ single_predicted_label = Unbound
    /\ result = Unbound
    /\ modelCalls = 0
    /\ loaded = Unbound

\* An uncaught exception, raised at the given line, ends the script.
Raise(kind, line) ==
    /\ pc' = "failed"
    /\ error' = [kind |-> kind, line |-> line]

\* Line 10, artifact readable.
LoadModel ==
    /\ pc = "load_model"
    /\ \E m \in Models : model' = m
    /\ pc' = "load_train"
    /\ UNCHANGED <<error, train_df, test_df, train_features, train_labels,
                   test_features, test_labels, locals, modelCalls, loaded>>

\* Mutant: the failed load is reported and line 10 is tried again.
LoadModelFailsRetried ==
    /\ pc = "load_model"
    /\ error' = [kind |-> "LoadFailure", line |-> 10]
    /\ UNCHANGED <<pc, globals, locals, modelCalls, loaded>>

\* Line 10, artifact missing or corrupt: load_model raises, nothing catches it.
LoadModelFails ==
    /\ pc = "load_model"
    /\ Raise("LoadFailure", 10)
    /\ UNCHANGED <<globals, locals, modelCalls, loaded>>

\* Line 17, file readable.
LoadTrain ==
    /\ pc = "load_train"
    /\ \E df \in Frames(MaxTrainRows) : train_df' = df
    /\ pc' = "load_test"
    /\ UNCHANGED <<error, model, test_df, train_features, train_labels,
                   test_features, test_labels, locals, modelCalls, loaded>>

\* Line 17, file missing or corrupt.
LoadTrainFails ==
    /\ pc = "load_train"
    /\ Raise("LoadFailure", 17)
    /\ UNCHANGED <<globals, locals, modelCalls, loaded>>

\* Line 18, file readable.
LoadTest ==
    /\ pc = "load_test"
    /\ \E df \in Frames(MaxRows) : test_df' = df
    /\ pc' = "prepare"
    /\ UNCHANGED <<error, model, train_df, train_features, train_labels,
                   test_features, test_labels, locals, modelCalls, loaded>>

\* Line 18, file missing or corrupt.
LoadTestFails ==
    /\ pc = "load_test"
    /\ Raise("LoadFailure", 18)
    /\ UNCHANGED <<globals, locals, modelCalls, loaded>>

\* Lines 20-22.
TrainFeaturesOf(df) == Normalize(FeatureColumns(df))

\* Line 24.
TrainLabelsOf(df) == LabelColumn(df)

\* Lines 26-28.
TestFeaturesOf(df) == Normalize(FeatureColumns(df))

\* Line 29.
TestLabelsOf(df) == LabelColumn(df)

\* Lines 20-29: the feature and label arrays of both splits.
Prepare ==
    /\ pc = "prepare"
    /\ train_features' = TrainFeaturesOf(train_df)
    /\ train_labels' = TrainLabelsOf(train_df)
    /\ test_features' = TestFeaturesOf(test_df)
    /\ test_labels' = TestLabelsOf(test_df)
    /\ loaded' = <<model, train_df, test_df, train_features', train_labels',
                   test_features', test_labels'>>
    /\ pc' = "call"
    /\ UNCHANGED <<error, model, train_df, test_df, locals, modelCalls>>

\* Line 34: the values np.random.randint(0, 9999) can return.
DrawRange == 0..(RandHigh - 1)

\* Line 43: str(model.predict(...)[0].argmax()).
PredictedLabel(m, img) == PyStr(Str(Argmax(ModelPredict(m, img))))

\* Line 45: the dictionary predict() returns.
ReturnValue(image, actual, predicted) == [prediction |-> image]

\* Mutant: predict() blanks the test images in place.
PredictGlobalsBlanked ==
    /\ test_features' = [r \in 1..Len(test_features) |->
                             [k \in 1..Len(test_features[r]) |-> <<0, PixelScale>>]]
    /\ UNCHANGED <<model, train_df, test_df, train_features, train_labels,
                   test_labels, loaded>>

\* predict() assigns no module global and changes no array in place.
PredictGlobals == UNCHANGED <<globals, loaded>>

\* Mutant: the IndexError is caught and an empty result is returned.
IndexFailureSwallowed ==
    /\ pc' = "done"
    /\ result' = [prediction |-> Unbound]
    /\ UNCHANGED <<error, features, label, selected_image,
                   single_predicted_label, modelCalls>>

\* Line 36 with an index out of bounds: IndexError, nothing catches it.
IndexFailure ==
    /\ Raise("IndexError", 36)
    /\ UNCHANGED <<features, label, selected_image,
                   single_predicted_label, result, modelCalls>>

\* Lines 32-45, called at line 47, with i the index drawn at line 34.
PredictWith(i) ==
    /\ selected_element' = i
    /\ IF ~InBounds(test_features, i)
       THEN IndexFailure
       ELSE /\ features' = Item(test_features, i)
            /\ label' = PyInt(Item(test_labels, i))
            /\ selected_image' = Imshow(features')
            /\ modelCalls' = modelCalls + 1
            /\ single_predicted_label' = PredictedLabel(model, features')
            /\ result' = ReturnValue(selected_image', label', single_predicted_label')
            /\ pc' = "done"
            /\ UNCHANGED error
    /\ PredictGlobals

\* Line 47.
Predict ==
    /\ pc = "call"
    /\ \E i \in DrawRange : PredictWith(i)

Next ==
    \/ LoadModel \/ LoadModelFails
    \/ LoadTrain \/ LoadTrainFails
    \/ LoadTest \/ LoadTestFails
    \/ Prepare
    \/ Predict

Spec == Init /\ [][Next]_vars

--------------------------------------------------------------------------
(* Shorthands used by the properties *)

\* Line 47 has been executed: predict() returned or raised.
Called == pc = "done" \/ (pc = "failed" /\ error.line = 36)

\* Line 29 has been executed.
Loaded == pc = "call" \/ Called

--------------------------------------------------------------------------
(* Properties *)

DigitStrings == {Digit[k + 1] : k \in 0..9}

\* C1: every successful call of predict() returns exactly the two fields
\* actual_label and predicted_label, the first being the label stored at the
\* drawn index and the second the argmax class of the image at that index.
C1_ResultHasBothLabels ==
    pc = "done" =>
        /\ DOMAIN result = {"actual_label", "predicted_label"}
        /\ result.actual_label.value = Item(test_labels, selected_element)
        /\ result.predicted_label.value =
              Str(Argmax(ModelPredict(model, Item(test_features, selected_element))))

\* C2: whatever the number n of test rows, the index drawn inside predict()
\* satisfies 0 <= index < n - 1 and so is a valid position of the dataset.
C2_IndexInRange ==
    Called =>
        /\ 0 <= selected_element
        /\ selected_element < Len(test_labels) - 1
        /\ InBounds(test_features, selected_element)

C4_SingleExampleSucceeds ==
    /\ (Called /\ Len(test_labels) > 0) => pc = "done"
    /\ (Called /\ test_labels = <<7>>) =>
           /\ pc = "done"
           /\ DOMAIN result = {"actual_label", "predicted_label"}
           /\ result.actual_label = PyStr("7")
           /\ result.predicted_label \in {PyStr(d) : d \in DigitStrings}

\* C5: when the model artifact cannot be loaded the script has stopped with a
\* Load Failure: no further step is possible (no retry) and predict() has not
\* been and will not be invoked.
C5_ModelLoadFailureIsFatal ==
    error.line = 10 =>
        /\ pc = "failed"
        /\ error.kind = "LoadFailure"
        /\ modelCalls = 0
        /\ ~Called
        /\ ~ENABLED Next

C5_Witness == pc = "failed" /\ error = [kind |-> "LoadFailure", line |-> 10]

\* C6 as stated: the predicted label computed by predict() for a valid index
\* is an integer in [0, 9].
C6_PredictedLabelIsInteger ==
    pc = "done" =>
        /\ single_predicted_label.type = "int"
        /\ single_predicted_label.value \in 0..9

\* C6 as amended: the predicted label computed by predict() for a valid index
\* is the decimal string of an integer in [0, 9], one of "0".."9".
C6_PredictedLabelIsDigitString ==
    pc = "done" =>
        /\ single_predicted_label.type = "str"
        /\ single_predicted_label.value \in DigitStrings

C6_Witness ==
    /\ pc = "done"
    /\ selected_element = 1
    /\ single_predicted_label = PyStr("9")

\* C7: the predicted label names the index of a maximum entry of the model's
\* output vector, and every entry before that index is strictly smaller.
C7_ArgmaxLowestMaximum ==
    pc = "done" =>
        LET v == ModelPredict(model, features)
        IN  \E k \in 0..(Len(v) - 1) :
                /\ single_predicted_label.value = Str(k)
                /\ \A j \in 1..Len(v) : v[j] <= v[k + 1]
                /\ \A j \in 1..k : v[j] < v[k + 1]

C7_Witness ==
    /\ pc = "done"
    /\ ModelPredict(model, features) = Peaks(3, 7)
    /\ single_predicted_label.value = "3"

\* C9: once the arrays are built, the training split and the test split each
\* have as many images as labels, also after predict() was called.
C9_ImageCountEqualsLabelCount ==
    Loaded =>
        /\ Len(train_features) = Len(train_labels)
        /\ Len(test_features) = Len(test_labels)

C9_Witness ==
    /\ pc = "done"
    /\ Len(train_labels) = MaxTrainRows
    /\ Len(test_labels) = MaxRows

\* C10: after predict() was called the model, the frames and the feature and
\* label arrays of both splits equal their values right after loading.
C10_PredictLeavesGlobalsUnchanged ==
    Called => globals = loaded

C10_Witness ==
    /\ pc = "done"
    /\ modelCalls = 1
    /\ Len(test_features) = MaxRows
    /\ globals = loaded

====
